---- MODULE Spec2Model ----
(***************************************************************************)
(* Bit-banged MBI5043 LED driver chain (atopile/hyperion firmware).        *)
(*                                                                         *)
(* Three firmware variants live in the repository:                         *)
(*   "pico"  - led_driver.cpp (src/unnamed/part_001) with main() and the   *)
(*             animation layer, 16-bit grayscale, GCLK from hardware PWM;  *)
(*   "ino16" - the Arduino sketch of firmware/hyperion/src/main.cpp lines  *)
(*             1-262, 16-bit grayscale;                                    *)
(*   "ino12" - the Arduino sketch of src/unnamed/part_002, 12-bit.         *)
(*                                                                         *)
(* Every C++ function is a definition giving its body as the sequence of   *)
(* primitive statements it executes (pin write, delay, PWM register write, *)
(* call).  The state machine executes one statement per step on a call     *)
(* stack, and a pin-level model of the driver chain reacts to the writes.  *)
(***************************************************************************)
EXTENDS Integers, Sequences, FiniteSets, TLC

\* ---------------------------------------------------------------- bounds
\* Rounds of the endless main loop (while (true) / loop()) that are followed.
MaxLoops == 1

\* Rounds of one fade loop of pulsing() that are unfolded.
MaxFadeSteps == 3

\* Bit positions at or above 32 one shiftValue / shiftBits call may read: the
\* widths that read more of them are left out of the inputs.
MaxUbBits == 2

\* ------------------------------------------------------ program constants
NUM_DRIVERS == 4
NUM_CHANNELS == 16
GS_BITS_16 == 16
GS_BITS_12 == 12
MAX_BRIGHTNESS == 65535
GS_50_PERCENT == 32768

Variants == {"pico", "ino16", "ino12"}

GS_BITS(v) == IF v = "ino12" THEN GS_BITS_12 ELSE GS_BITS_16

GS_MAX(v) == 2 ^ GS_BITS(v) - 1

\* ------------------------------------------------------------ statements
Put(pin, val) == [op |-> "put", pin |-> pin, val |-> val]

Sleep(us) == [op |-> "sleep", us |-> us]

Pwm(field, val) == [op |-> "pwm", field |-> field, val |-> val]

Call(fn, arg) == [op |-> "call", fn |-> fn, args |-> {arg}]

CallAny(fn, argSet) == [op |-> "call", fn |-> fn, args |-> argSet]

\* A loop whose body does not read its counter: body is run n times.
Loop(n, body) == [op |-> "loop", n |-> n, body |-> body]

RECURSIVE CatFrom(_, _)
CatFrom(ss, k) == IF k > Len(ss) THEN <<>> ELSE ss[k] \o CatFrom(ss, k + 1)

\* The statements of a loop: the bodies of its iterations one after another.
Cat(ss) == CatFrom(ss, 1)

\* for (k = 0; k < n; k++) body(k)
For(n, body(_)) == Cat([k \in 1..n |-> body(k - 1)])

\* for (k = n - 1; k >= 0; --k) body(k)
ForDown(n, body(_)) == Cat([k \in 1..n |-> body(n - k)])

\* ------------------------------------------------------- integer widths
ToInt8(x) == LET m == x % 256 IN IF m >= 128 THEN m - 256 ELSE m

ToUint16(x) == x % 65536

\* A uint32_t as its two 16-bit halves <<high, low>>: x * 65536 modulo 2^32
Shl16Uint32(x) == << x % 65536, 0 >>

\* (value >> i) & 0x01 for 0 <= value < 2^31 and 0 <= i < 32
BitAt(value, i) == IF i >= 31 THEN 0 ELSE (value \div (2 ^ i)) % 2

\* The arguments shiftBit((value >> i) & 0x01) may be called with: value is
\* an int or a uint32_t of 32 bits, and a shift by 32 or more is undefined.
ShiftedBit(value, i) == IF i >= 32 THEN { <<0>>, <<1>> } ELSE { <<BitAt(value, i)>> }

\* ------------------------------------------- led_driver.cpp (variant pico)
\* void shiftBit(bool bit)
shiftBit_pico(bit) ==
    << Put("SDI", bit), Sleep(1),
       Put("DCLK", 1), Sleep(1),
       Put("DCLK", 0), Sleep(1) >>

\* shiftValue with the loop running upward: least significant bit first.
shiftValue_LsbFirst(value, bits) ==
    LET first == ToInt8(bits - 1)
    IN  For(IF first >= 0 THEN first + 1 ELSE 0,
            LAMBDA i : << CallAny("shiftBit", ShiftedBit(ToUint16(value), i)) >>)

\* void shiftValue(uint16_t value, uint8_t bits):
\*   for (int8_t i = bits - 1; i >= 0; i--) shiftBit((value >> i) & 0x01);
shiftValue_pico(value, bits) ==
    LET first == ToInt8(bits - 1)
    IN  ForDown(IF first >= 0 THEN first + 1 ELSE 0,
                LAMBDA i : << CallAny("shiftBit", ShiftedBit(ToUint16(value), i)) >>)

\* latchData with a second DCLK pulse under LE.
latchData_TwoPulses ==
    << Put("DCLK", 0), Sleep(2),
       Put("LE", 1), Sleep(2),
       Put("DCLK", 1), Sleep(2),
       Put("DCLK", 0), Sleep(2),
       Put("DCLK", 1), Sleep(2),
       Put("DCLK", 0), Sleep(2),
       Put("LE", 0), Sleep(2) >>

\* latchData returning with LE still high.
latchData_LeHeld ==
    << Put("DCLK", 0), Sleep(2),
       Put("LE", 1), Sleep(2),
       Put("DCLK", 1), Sleep(2),
       Put("DCLK", 0), Sleep(2) >>

\* void latchData()
latchData_pico ==
    << Put("DCLK", 0), Sleep(2),
       Put("LE", 1), Sleep(2),
       Put("DCLK", 1), Sleep(2),
       Put("DCLK", 0), Sleep(2),
       Put("LE", 0), Sleep(2) >>

\* void outputData()
outputData_pico ==
    << Put("DCLK", 0), Sleep(2),
       Put("LE", 1), Sleep(2),
       Loop(3, << Put("DCLK", 1), Sleep(2), Put("DCLK", 0), Sleep(2) >>),
       Put("LE", 0), Sleep(2) >>

\* clearRegisters with the outer loop one round short.
clearRegisters_FifteenRounds ==
    << Loop(15, << Loop(4, << Call("shiftValue", <<0, 16>>), Sleep(10) >>),
                   Call("latchData", <<>>), Sleep(10) >>),
       Sleep(10),
       Call("outputData", <<>>) >>

\* void clearRegisters()
clearRegisters_pico ==
    << Loop(16, << Loop(4, << Call("shiftValue", <<0, 16>>), Sleep(10) >>),
                   Call("latchData", <<>>), Sleep(10) >>),
       Sleep(10),
       Call("outputData", <<>>) >>

\* void allWhite(uint16_t brightness)
allWhite_pico(brightness) ==
    For(16, LAMBDA i :
        << Loop(4, IF i = 2
                   THEN << Call("shiftValue", <<brightness, 16>>), Sleep(10) >>
                   ELSE << Call("shiftValue", <<0, 16>>), Sleep(10) >>),
           Call("latchData", <<>>), Sleep(10) >>)
    \o << Sleep(1000), Call("outputData", <<>>) >>

\* void setup_pwm(uint gpio, uint32_t freq, uint8_t duty_percent).  clkdiv is
\* kept as the quotient <<numerator, denominator>>; freq * 65536 is a uint32_t
\* product (kept as 16-bit halves), 65535 * duty_percent an int one stored in
\* a uint16_t.
setup_pwm(gpio, freq, duty_percent) ==
    << Pwm("function", gpio),
       Pwm("clkdiv", <<125000000, Shl16Uint32(freq)>>),
       Pwm("wrap", 65535),
       Pwm("level", ToUint16((65535 * duty_percent) \div 100)),
       Pwm("enabled", 1) >>

\* led_driver_init without the final clearRegisters().
led_driver_init_NoClear ==
    << Put("SDI", 0), Put("DCLK", 0), Put("LE", 0),
       Call("setup_pwm", <<"GCLK", 800000, 50>>) >>

\* void led_driver_init(): the outputs driven LOW, GCLK handed to the PWM
\* slice, then the registers cleared.  (gpio_init / gpio_set_dir only select
\* the pin directions.)
led_driver_init ==
    << Put("SDI", 0), Put("DCLK", 0), Put("LE", 0),
       Call("setup_pwm", <<"GCLK", 800000, 50>>),
       Call("clearRegisters", <<>>) >>

\* ------------------------------- main.cpp lines 1-262 (variant ino16)
\* inline void shiftBit(bool bit)
shiftBit_ino16(bit) ==
    << Put("SDI", IF bit # 0 THEN 1 ELSE 0), Sleep(1),
       Put("DCLK", 1), Sleep(1),
       Put("DCLK", 0), Sleep(1) >>

\* void shiftValue(uint16_t value, uint8_t bits)
shiftValue_ino16(value, bits) ==
    LET first == ToInt8(bits - 1)
    IN  ForDown(IF first >= 0 THEN first + 1 ELSE 0,
                LAMBDA i : << CallAny("shiftBit", ShiftedBit(ToUint16(value), i)) >>)

\* inline void shiftBitGrey(bool bit): shiftBit with GCLK as its clock
shiftBitGrey(bit) ==
    << Put("SDI", IF bit # 0 THEN 1 ELSE 0), Sleep(1),
       Put("GCLK", 1), Sleep(1),
       Put("GCLK", 0), Sleep(1) >>

\* void shiftValueGrey(uint16_t value, uint8_t bits)
shiftValueGrey(value, bits) ==
    LET first == ToInt8(bits - 1)
    IN  ForDown(IF first >= 0 THEN first + 1 ELSE 0,
                LAMBDA i : << Call("shiftBitGrey", <<BitAt(ToUint16(value), i)>>) >>)

\* void latchData()
latchData_ino16 ==
    << Put("DCLK", 0), Sleep(2),
       Put("LE", 1), Sleep(2),
       Put("DCLK", 1), Sleep(2),
       Put("DCLK", 0), Sleep(2),
       Put("LE", 0), Sleep(2) >>

\* outputData with the pulse loop running to 2.
outputData_TwoPulses ==
    << Put("DCLK", 0), Sleep(2),
       Put("LE", 1), Sleep(2),
       Loop(2, << Put("DCLK", 1), Sleep(2), Put("DCLK", 0), Sleep(2) >>),
       Put("LE", 0), Sleep(2) >>

\* void outputData()
outputData_ino16 ==
    << Put("DCLK", 0), Sleep(2),
       Put("LE", 1), Sleep(2),
       Loop(3, << Put("DCLK", 1), Sleep(2), Put("DCLK", 0), Sleep(2) >>),
       Put("LE", 0), Sleep(2) >>

\* static constexpr uint16_t GCLK_PULSES_PER_FRAME = 65536
GCLK_PULSES_PER_FRAME_16 == ToUint16(65536)

\* void generateGCLK(uint16_t pulses)
generateGCLK(pulses) ==
    << Loop(ToUint16(pulses),
            << Put("GCLK", 1), Sleep(1), Put("GCLK", 0), Sleep(1) >>) >>

\* clearRegisters with the bit width left out of the loop bound.
clearRegisters_ShortLoop ==
    << Loop(NUM_DRIVERS * NUM_CHANNELS, << Call("shiftBit", <<0>>) >>),
       Call("latchData", <<>>),
       Call("outputData", <<>>) >>

\* void clearRegisters(): uint16_t i runs up to NUM_DRIVERS * NUM_CHANNELS * GS_BITS
clearRegisters_ino16 ==
    << Loop(NUM_DRIVERS * NUM_CHANNELS * GS_BITS_16, << Call("shiftBit", <<0>>) >>),
       Call("latchData", <<>>),
       Call("outputData", <<>>) >>

\* void setLEDBrightness(uint16_t brightness): all that is left of it
setLEDBrightness(brightness) == << Put("GCLK", 1), Put("GCLK", 0) >>

\* void toggleLeds(): while (true) with ledState false at first; the serial
\* console left out
toggleLeds ==
    For(MaxLoops, LAMBDA k :
        << Call("setLEDBrightness", <<IF k % 2 = 1 THEN GS_50_PERCENT ELSE 0>>),
           Loop(100, << Call("generateGCLK", <<GCLK_PULSES_PER_FRAME_16>>),
                        Sleep(100) >>) >>)

\* allBlack latching at the start of each round instead of its end.
allBlack_LatchFirst ==
    << Loop(16, << Call("latchData", <<>>),
                   Loop(4, << Call("shiftValue", <<0, 16>>), Sleep(10) >>) >>),
       Sleep(10),
       Call("outputData", <<>>) >>

\* void allBlack()
allBlack ==
    << Loop(16, << Loop(4, << Call("shiftValue", <<0, 16>>), Sleep(10) >>),
                   Call("latchData", <<>>) >>),
       Sleep(10),
       Call("outputData", <<>>) >>

\* void allWhite()
allWhite_ino16 ==
    << Loop(16, << Loop(4, << Call("shiftValue", <<200, 16>>), Sleep(10),
                              Call("latchData", <<>>) >>),
                   Sleep(10) >>),
       Sleep(1000),
       Call("outputData", <<>>) >>

\* void setup(): the serial console left out, delays in microseconds
setup_ino16 ==
    << Sleep(100000),
       Put("SDI", 0), Put("DCLK", 0), Put("GCLK", 0), Put("LE", 0),
       Sleep(100000),
       Call("allBlack", <<>>), Sleep(1000000),
       Call("allWhite", <<>>), Sleep(1000000) >>

\* void loop()
loop_ino16 == << Call("setLEDBrightness", <<10>>) >>

\* ------------------------------------- part_002 (variant ino12)
\* inline void pulseHighLow(uint8_t pin)
pulseHighLow(pin) == << Put(pin, 1), Put(pin, 0) >>

\* inline void shiftBit(bool bit)
shiftBit_ino12(bit) ==
    << Put("SDI", IF bit # 0 THEN 1 ELSE 0) >> \o pulseHighLow("DCLK")

\* inline void shiftBits(uint32_t value, uint8_t width)
shiftBits(value, width) ==
    LET first == ToInt8(width - 1)
    IN  ForDown(IF first >= 0 THEN first + 1 ELSE 0,
                LAMBDA i : << CallAny("shiftBit", ShiftedBit(value, i)) >>)

\* inline void latchOutputs()
latchOutputs ==
    << Put("LE", 1), Sleep(1) >> \o pulseHighLow("DCLK") \o << Sleep(1), Put("LE", 0) >>

\* static constexpr uint16_t GCLK_PULSES_PER_FRAME = (1u << GS_BITS)
GCLK_PULSES_PER_FRAME_12 == ToUint16(2 ^ GS_BITS_12)

\* inline void gclkPulses(uint16_t count)
gclkPulses(count) == << Loop(ToUint16(count), pulseHighLow("GCLK")) >>

\* static void diagnosticPulse(uint8_t pin, uint8_t times, uint16_t high_ms, uint16_t low_ms)
diagnosticPulse(pin, times, high_ms, low_ms) ==
    << Loop(times, << Put(pin, 1), Sleep(1000 * high_ms),
                      Put(pin, 0), Sleep(1000 * low_ms) >>) >>

\* static void fillDriverChannels(r, g, b, channels): the 16 channels of one driver
fillDriverChannels(r, g, b) ==
    [ch \in 0..(NUM_CHANNELS - 1) |->
        CASE ch \in {3, 7, 15, 8}   -> r
          [] ch \in {2, 6, 14, 9}   -> g
          [] ch \in {1, 5, 13, 10}  -> b
          [] OTHER                  -> 0]

\* sendGrayscaleFrame sending the nearest driver first.
sendGrayscaleFrame_NearestFirst(drivers) ==
    << Put("LE", 0) >>
    \o For(NUM_DRIVERS, LAMBDA d :
           ForDown(NUM_CHANNELS, LAMBDA ch :
               << Call("shiftBits", <<drivers[d][ch], GS_BITS_12>>) >>))
    \o << Call("latchOutputs", <<>>) >>

\* static void sendGrayscaleFrame(uint16_t drivers[NUM_DRIVERS][NUM_CHANNELS])
sendGrayscaleFrame(drivers) ==
    << Put("LE", 0) >>
    \o ForDown(NUM_DRIVERS, LAMBDA d :
           ForDown(NUM_CHANNELS, LAMBDA ch :
               << Call("shiftBits", <<drivers[d][ch], GS_BITS_12>>) >>))
    \o << Call("latchOutputs", <<>>) >>

\* void setup()
setup_ino12 ==
    << Put("SDI", 0), Put("DCLK", 0), Put("GCLK", 0), Put("LE", 0),
       Call("diagnosticPulse", <<"SDI", 4, 100, 100>>),
       Call("diagnosticPulse", <<"DCLK", 4, 100, 100>>),
       Call("diagnosticPulse", <<"GCLK", 4, 100, 100>>),
       Call("diagnosticPulse", <<"LE", 8, 150, 150>>),
       Call("diagnosticPulse", <<"SDI", 1, 300, 300>>),
       Call("diagnosticPulse", <<"DCLK", 2, 300, 300>>),
       Call("diagnosticPulse", <<"GCLK", 3, 300, 300>>),
       Call("diagnosticPulse", <<"LE", 4, 300, 300>>),
       Loop(2000, << Put("DCLK", 1), Sleep(250), Put("DCLK", 0), Sleep(250) >>),
       Loop(2000, << Put("GCLK", 1), Sleep(250), Put("GCLK", 0), Sleep(250) >>),
       Call("latchOutputs", <<>>) >>

\* One round of loop(): hsvToRgb(hue, 1.0, 0.2, r, g, b) is float arithmetic
\* and is drawn from rgbSet (values it returns, all within 0..819); the frame
\* gives every driver the channels of fillDriverChannels(r, g, b).
loop_ino12(rgbSet) ==
    << CallAny("sendGrayscaleFrame",
               { << [d \in 0..(NUM_DRIVERS - 1) |->
                        fillDriverChannels(c[1], c[2], c[3])] >> : c \in rgbSet }),
       Call("gclkPulses", <<GCLK_PULSES_PER_FRAME_12>>) >>

\* --------------------------- animations.cpp and main() (variant pico)
\* An image is led_image_t: image[row][col][color], 4 x 4 x 4 entries of 16 bits.
UniformImage(value) ==
    [row \in 0..3 |-> [col \in 0..3 |-> [color \in 0..3 |-> ToUint16(value)]]]

\* The frame an image stands for: driver = row, channel = 4 * col + color.
\* (set_image and its pixel table are not among the sources.)
ImageFrame(image) ==
    [d \in 0..(NUM_DRIVERS - 1) |->
        [ch \in 0..(NUM_CHANNELS - 1) |-> image[d][ch \div 4][ch % 4]]]

\* set_image(image): the frame shifted farthest driver first, highest channel
\* first, MSB first, then latched and committed to the outputs.
set_image(image) ==
    ForDown(NUM_DRIVERS, LAMBDA d :
        ForDown(NUM_CHANNELS, LAMBDA ch :
            << Call("shiftValue", <<ImageFrame(image)[d][ch], GS_BITS_16>>) >>))
    \o << Call("latchData", <<>>), Call("outputData", <<>>) >>

\* rgbw_color_t
Color(r, g, b, w) == [r |-> r, g |-> g, b |-> b, w |-> w]

BLACK == Color(0, 0, 0, 0)

WHITE_WHITE == Color(MAX_BRIGHTNESS, MAX_BRIGHTNESS, MAX_BRIGHTNESS, MAX_BRIGHTNESS)

\* set_pixel leaving the WHITE entry of the pixel as it was.
set_pixel_NoWhite(image, row, col, color) ==
    [image EXCEPT ![row][col] =
        [[[@ EXCEPT ![0] = color.r] EXCEPT ![1] = color.g] EXCEPT ![2] = color.b]]

\* void set_pixel(led_image_t &image, int row, int col, rgbw_color_t color):
\* entries RED = 0, GREEN = 1, BLUE = 2, WHITE = 3 of the pixel
set_pixel(image, row, col, color) ==
    [image EXCEPT ![row][col] =
        [[[[@ EXCEPT ![0] = color.r] EXCEPT ![1] = color.g]
                     EXCEPT ![2] = color.b] EXCEPT ![3] = color.w]]

\* The pixels (row, col) from the k-th on, in loop order, set to color(row, col).
RECURSIVE SetPixelsFrom(_, _, _)
SetPixelsFrom(image, color, k) ==
    IF k >= 16 THEN image
    ELSE SetPixelsFrom(set_pixel(image, k \div 4, k % 4, color[k \div 4][k % 4]),
                       color, k + 1)

\* void set_all_pixels(led_image_t &image, rgbw_color_t color)
set_all_pixels(image, color) ==
    SetPixelsFrom(image, [row \in 0..3 |-> [col \in 0..3 |-> color]], 0)

\* void clear_image(led_image_t &image)
clear_image(image) == set_all_pixels(image, BLACK)

\* off without the clear_image call.
off_NoClear(image) ==
    << Call("set_image", <<image>>), Sleep(100000) >>

\* void off(); image is what its uninitialised local led_image_t holds
off(image) ==
    << Call("set_image", <<clear_image(image)>>), Sleep(100000) >>

\* x / y truncated toward zero, as the conversion of a float to an integer does
TruncDiv(x, y) == IF x >= 0 THEN x \div y ELSE -((-x) \div y)

\* The values brightness takes in a loop
\*   for (int brightness = from; <test>; brightness += / -= MAX_BRIGHTNESS / frequency)
\* with frequency = num / den; at most fuel rounds are unfolded.
RECURSIVE FadeValues(_, _, _, _, _)
FadeValues(brightness, up, num, den, fuel) ==
    IF fuel = 0 \/ (up /\ ~(brightness < MAX_BRIGHTNESS)) \/ (~up /\ ~(brightness > 0))
    THEN <<>>
    ELSE <<brightness>>
         \o FadeValues(TruncDiv(brightness * num
                                  + (IF up THEN 1 ELSE -1) * MAX_BRIGHTNESS * den, num),
                       up, num, den, fuel - 1)

\* void pulsing(float frequency), lines 16-55, with frequency = num / den
pulsing(num, den) ==
    LET frame(brightness) ==
            << Call("set_image", <<UniformImage(brightness)>>),
               Sleep(1000 * ((1000 * den) \div num)) >>
        upValues == FadeValues(0, TRUE, num, den, MaxFadeSteps)
        downValues == FadeValues(MAX_BRIGHTNESS, FALSE, num, den, MaxFadeSteps)
    IN  Cat([k \in 1..Len(upValues) |-> frame(upValues[k])])
        \o Cat([k \in 1..Len(downValues) |-> frame(downValues[k])])

\* What the conversion of a float outside 0..65535 to uint16_t may give.
UbSamples == {0, 32765, 65535}

\* The numbers of rounds a loop of the second pulsing (lines 113 and 121)
\*   for (uint16_t brightness = from; <test>; brightness += / -= MAX_BRIGHTNESS / frequency)
\* may run, with frequency = num / den: the sum is a float, and its conversion
\* back to uint16_t is undefined once it leaves 0..65535.  A loop still
\* running after fuel rounds is cut there.
RECURSIVE FadeRounds(_, _, _, _, _)
FadeRounds(brightness, up, num, den, fuel) ==
    IF fuel = 0 \/ (up /\ ~(brightness < MAX_BRIGHTNESS)) \/ (~up /\ ~(brightness > 0))
    THEN {0}
    ELSE LET t == TruncDiv(brightness * num
                             + (IF up THEN 1 ELSE -1) * MAX_BRIGHTNESS * den, num)
             next == IF t \in 0..65535 THEN {t} ELSE UbSamples
         IN  { 1 + n : n \in UNION { FadeRounds(b, up, num, den, fuel - 1) : b \in next } }

\* void pulsing(float frequency), lines 108-127, with frequency = num / den,
\* its loops running upRounds and downRounds rounds; image is what its
\* uninitialised local led_image_t holds
pulsing_2(num, den, upRounds, downRounds, image) ==
    LET frame == << Call("set_image", <<set_all_pixels(image, WHITE_WHITE)>>),
                    Sleep(1000 * ((1000 * den) \div num)) >>
    IN  << Loop(upRounds, frame), Loop(downRounds, frame) >>

\* The colors the loops of checkerboard_flash hand to set_pixel:
\* if ((row + col) % 2 == 0) even, else odd
Checkerboard(even, odd) ==
    [row \in 0..3 |-> [col \in 0..3 |-> IF (row + col) % 2 = 0 THEN even ELSE odd]]

\* checkerboard_flash showing the first pattern both times.
checkerboard_flash_NoSwap(color1, color2, interval_ms, image) ==
    LET first == SetPixelsFrom(clear_image(image), Checkerboard(color1, color2), 0)
        second == SetPixelsFrom(clear_image(first), Checkerboard(color1, color2), 0)
    IN  << Call("set_image", <<first>>), Sleep(1000 * interval_ms),
           Call("set_image", <<second>>), Sleep(1000 * interval_ms) >>

\* void checkerboard_flash(rgbw_color_t color1, rgbw_color_t color2,
\* uint32_t interval_ms); image is what its uninitialised local holds
checkerboard_flash(color1, color2, interval_ms, image) ==
    LET first == SetPixelsFrom(clear_image(image), Checkerboard(color1, color2), 0)
        second == SetPixelsFrom(clear_image(first), Checkerboard(color2, color1), 0)
    IN  << Call("set_image", <<first>>), Sleep(1000 * interval_ms),
           Call("set_image", <<second>>), Sleep(1000 * interval_ms) >>

\* int main(): led_driver_init(), then while (true) pulsing(0.5)
main ==
    << Sleep(3000000),
       Call("led_driver_init", <<>>),
       Loop(MaxLoops, << Call("pulsing", <<1, 2>>) >>) >>

\* ------------------------------------------------------------------ inputs
\* Results of hsvToRgb(hue, 1.0, 0.2, ...) that loop() is followed with.
HsvSamples == { <<819, 0, 0>>, <<0, 410, 819>> }

\* Channel values handed to shiftValue / shiftBits / allWhite directly.
ValueSamples == {0, 1, 2652, 4095, 32768, 42435, 65535}

\* Widths the firmware shifts with.
WidthSamples == {GS_BITS_12, GS_BITS_16}

\* The frame with every channel of driver 2 at value and every other driver dark.
Driver2Frame(value) ==
    [d \in 0..(NUM_DRIVERS - 1) |-> [ch \in 0..(NUM_CHANNELS - 1) |->
        IF d = 2 THEN value ELSE 0]]

\* Widths of the whole range of uint8_t: none, one, beyond the 16 bits of a
\* value, up to the 32 bits of an int and a little beyond, and above 128.
WideWidths == {0, 1, 17, 32} \cup (33..(32 + MaxUbBits)) \cup {129, 200, 255}

\* Frames handed to sendGrayscaleFrame directly: every (driver, channel) a
\* value of its own; only the farthest driver lit; all at the 12-bit maximum;
\* one with entries above the 12-bit maximum; and driver 2 alone at half scale.
FrameSamples ==
    { [d \in 0..(NUM_DRIVERS - 1) |-> [ch \in 0..(NUM_CHANNELS - 1) |->
          ((d * NUM_CHANNELS + ch) * 61 + 7) % 4096]],
      [d \in 0..(NUM_DRIVERS - 1) |-> [ch \in 0..(NUM_CHANNELS - 1) |->
          IF d = NUM_DRIVERS - 1 THEN 2048 + ch ELSE 0]],
      [d \in 0..(NUM_DRIVERS - 1) |-> [ch \in 0..(NUM_CHANNELS - 1) |-> 4095]],
      [d \in 0..(NUM_DRIVERS - 1) |-> [ch \in 0..(NUM_CHANNELS - 1) |->
          IF ch = 5 THEN 4096 + 16 * d + 5 ELSE IF ch = 6 THEN 65535 ELSE 100 + d]],
      Driver2Frame(2 ^ (GS_BITS_12 - 1)) }

\* Images handed to set_image directly: row 2 alone at half scale (0x8000), and
\* every entry a value of its own.
ImageSamples ==
    { [row \in 0..3 |-> [col \in 0..3 |-> [color \in 0..3 |->
          IF row = 2 THEN GS_50_PERCENT ELSE 0]]],
      [row \in 0..3 |-> [col \in 0..3 |-> [color \in 0..3 |->
          ((16 * row + 4 * col + color) * 1021 + 77) % 65536]]] }

\* What an uninitialised led_image_t may hold.
JunkImages ==
    { [row \in 0..3 |-> [col \in 0..3 |-> [color \in 0..3 |-> 65535]]],
      [row \in 0..3 |-> [col \in 0..3 |-> [color \in 0..3 |->
          ((16 * row + 4 * col + color) * 613 + 9) % 65536]]] }

\* What the chain may hold when the firmware starts: nothing is known of it.
PowerUp(v) ==
    { [reg |-> [w \in 0..(NUM_DRIVERS * NUM_CHANNELS - 1) |-> GS_MAX(v)],
       latched |-> [w \in 0..(NUM_DRIVERS * NUM_CHANNELS - 1) |-> (w * 37 + 5) % (GS_MAX(v) + 1)]],
      [reg |-> [w \in 0..(NUM_DRIVERS * NUM_CHANNELS - 1) |-> (w * 1021 + 3) % (GS_MAX(v) + 1)],
       latched |-> [w \in 0..(NUM_DRIVERS * NUM_CHANNELS - 1) |-> GS_MAX(v)]] }

\* ------------------------------------------------------------- the machine
VARIABLES
    variant,    \* the firmware that runs
    harness,    \* "boot": from power-up through main / setup / loop; "api": one call;
                \* "twice": the same all-zero submission two times in a row; "anim":
                \* led_driver_init(), then one animation
    stack,      \* call stack: frames [kind, fn, arg, code, ip, rep]
    pin,        \* level driven on SDI, DCLK, LE, GCLK
    pwm,        \* registers of the PWM slice of GCLK
    reg,        \* the chain's shift register, one GS_BITS-bit window per (driver, channel)
    latched,    \* the output latches, same shape
    cmd,        \* [pulses: DCLK rising edges since LE rose, last: their number when LE last fell]
    now,        \* microseconds of delay since the current call began
    ev,         \* pin writes of the latest shiftBit / latch / output call
    bits,       \* bits handed to shiftBit by the latest shiftValue / shiftBits call
    sub,        \* tally of the latest frame submission (ones: the 0-based positions,
                \* in call order, of its shiftBit calls that carried a 1)
    hist,       \* tally since power-up
    ret,        \* the call that has just returned
    gclk,       \* the grayscale clock: [started: it has been set going, idle: DCLK
                \* rising edges of shiftBit / latch / output calls since GCLK was last
                \* written, edges: GCLK rising edges since the latest generateGCLK /
                \* gclkPulses call began, by: the functions that were running when
                \* GCLK was written, pwmBy: those running when the PWM slice was
                \* written, reconf: writes to the PWM slice once it was enabled]
    anim,       \* the frames the latest animation call has handed to set_image, with
                \* the microseconds the animation slept after each
    wr,         \* harness "twice": the pin writes of its two calls, in order, those of
                \* a shiftBit / latch / output call as one entry, run-length encoded
    fade,       \* harness "fade": the loop counter of a running pulsing call
    img         \* harness "image": the led_image_t of a running set_all_pixels /
                \* off call, and how far the call has come

vars == << variant, harness, stack, pin, pwm, reg, latched, cmd, now, ev, bits, sub, hist, ret, gclk, anim, wr, fade, img >>

\* The statements of function fn of firmware v called with arguments a.
Body(v, fn, a) ==
    CASE fn = "shiftBit" ->
            (CASE v = "pico" -> shiftBit_pico(a[1])
               [] v = "ino16" -> shiftBit_ino16(a[1])
               [] v = "ino12" -> shiftBit_ino12(a[1]))
      [] fn = "shiftValue" ->
            IF v = "pico" THEN shiftValue_pico(a[1], a[2]) ELSE shiftValue_ino16(a[1], a[2])
      [] fn = "shiftBits" -> shiftBits(a[1], a[2])
      [] fn = "latchData" -> IF v = "pico" THEN latchData_pico ELSE latchData_ino16
      [] fn = "latchOutputs" -> latchOutputs
      [] fn = "outputData" -> IF v = "pico" THEN outputData_pico ELSE outputData_ino16
      [] fn = "clearRegisters" ->
            IF v = "pico" THEN clearRegisters_pico ELSE clearRegisters_ino16
      [] fn = "allWhite" -> IF v = "pico" THEN allWhite_pico(a[1]) ELSE allWhite_ino16
      [] fn = "allBlack" -> allBlack
      [] fn = "setup_pwm" -> setup_pwm(a[1], a[2], a[3])
      [] fn = "led_driver_init" -> led_driver_init
      [] fn = "generateGCLK" -> generateGCLK(a[1])
      [] fn = "shiftBitGrey" -> shiftBitGrey(a[1])
      [] fn = "shiftValueGrey" -> shiftValueGrey(a[1], a[2])
      [] fn = "toggleLeds" -> toggleLeds
      [] fn = "setLEDBrightness" -> setLEDBrightness(a[1])
      [] fn = "gclkPulses" -> gclkPulses(a[1])
      [] fn = "diagnosticPulse" -> diagnosticPulse(a[1], a[2], a[3], a[4])
      [] fn = "sendGrayscaleFrame" -> sendGrayscaleFrame(a[1])
      [] fn = "set_image" -> set_image(a[1])
      [] fn = "off" -> off(a[1])
      [] fn = "pulsing" -> pulsing(a[1], a[2])
      [] fn = "pulsing_2" -> pulsing_2(a[1], a[2], a[3], a[4], a[5])
      [] fn = "checkerboard_flash" -> checkerboard_flash(a[1], a[2], a[3], a[4])
      [] fn = "main" -> main
      [] fn = "setup" -> IF v = "ino12" THEN setup_ino12 ELSE setup_ino16
      [] fn = "loop" -> IF v = "ino12" THEN loop_ino12(HsvSamples) ELSE loop_ino16

\* The calls that bit-bang the protocol lines themselves.
ProtocolFns == {"shiftBit", "latchData", "latchOutputs", "outputData"}

LatchFns == {"latchData", "latchOutputs"}

ValueFns == {"shiftValue", "shiftBits"}

\* The operations that submit one frame to the chain.
SubmitFns == {"clearRegisters", "allWhite", "allBlack", "sendGrayscaleFrame", "set_image"}

Windows == 0..(NUM_DRIVERS * NUM_CHANNELS - 1)

\* The window of (driver d, channel ch): driver 0 is next to the controller.
WindowOf(d, ch) == d * NUM_CHANNELS + ch

\* DCLK rising edge with LE low: SDI enters at the controller end and every
\* earlier bit moves one position toward SDO.
ShiftIn(r, bit, width) ==
    [w \in Windows |->
        (2 * r[w] + (IF w = 0 THEN bit ELSE r[w - 1] \div (2 ^ (width - 1))))
            % (2 ^ width)]

Frame(kind, fn, arg, code, rep) ==
    [kind |-> kind, fn |-> fn, arg |-> arg, code |-> code, ip |-> 1, rep |-> rep]

Top == stack[Len(stack)]

AtStatement == Top.ip <= Len(Top.code)

Stmt == Top.code[Top.ip]

\* Past the last statement of a loop body: next round, or leave the loop.
RECURSIVE Settle(_)
Settle(st) ==
    LET t == st[Len(st)]
    IN  IF t.kind = "loop" /\ t.ip > Len(t.code)
        THEN IF t.rep > 1
             THEN [st EXCEPT ![Len(st)] = [t EXCEPT !.ip = 1, !.rep = t.rep - 1]]
             ELSE Settle(SubSeq(st, 1, Len(st) - 1))
        ELSE st

\* The stack with the current statement done.
Advanced == Settle([stack EXCEPT ![Len(stack)].ip = Top.ip + 1])

NoRet == [fn |-> "", arg |-> <<>>]

NoSub == [fn |-> "", shifts |-> 0, ones |-> {}, latches |-> 0, outputs |-> 0,
          shiftsAtFirstLatch |-> -1, shiftsAtLastLatch |-> -1,
          shiftsAtOutput |-> -1, latchesAtOutput |-> -1, gaps |-> {}]

NoHist == [clearCalls |-> 0, clearRets |-> 0, blackCalls |-> 0, blackRets |-> 0,
           data |-> 0, clearsAtData |-> -1, blacksAtData |-> -1]

\* The firmware from power-up.
BootProgram(v) ==
    IF v = "pico"
    THEN << Call("main", <<>>) >>
    ELSE << Call("setup", <<>>), Loop(MaxLoops, << Call("loop", <<>>) >>) >>

\* One call of a driver operation on an initialised, idle driver.
ApiCalls(v) ==
    CASE v = "pico" ->
            { Call("clearRegisters", <<>>), Call("latchData", <<>>),
              Call("outputData", <<>>), Call("led_driver_init", <<>>),
              CallAny("allWhite", { <<b>> : b \in {0, GS_50_PERCENT, MAX_BRIGHTNESS} }),
              CallAny("set_image", { <<image>> : image \in ImageSamples }),
              CallAny("shiftValue",
                      { <<x, w>> : x \in ValueSamples, w \in WidthSamples }
                      \cup { <<x, w>> : x \in {42435}, w \in WideWidths }) }
      [] v = "ino16" ->
            { Call("clearRegisters", <<>>), Call("latchData", <<>>),
              Call("outputData", <<>>), Call("allBlack", <<>>), Call("allWhite", <<>>),
              Call("toggleLeds", <<>>),
              CallAny("generateGCLK", { <<GCLK_PULSES_PER_FRAME_16>>, <<3>> }),
              CallAny("setLEDBrightness", { <<0>>, <<GS_50_PERCENT>> }),
              Call("shiftValueGrey", <<GS_50_PERCENT, GS_BITS_16>>),
              CallAny("shiftValue",
                      { <<x, w>> : x \in ValueSamples, w \in WidthSamples }
                      \cup { <<x, w>> : x \in {42435}, w \in WideWidths }) }
      [] v = "ino12" ->
            { Call("latchOutputs", <<>>),
              Call("gclkPulses", <<GCLK_PULSES_PER_FRAME_12>>),
              CallAny("sendGrayscaleFrame", { <<f>> : f \in FrameSamples }),
              CallAny("shiftBits", { <<x, GS_BITS_12>> : x \in ValueSamples }
                                   \cup { <<x, w>> : x \in {42435}, w \in WideWidths }) }

\* The operations that submit an all-zero frame.
ZeroSubmissions(v) ==
    CASE v = "pico" ->
            { Call("clearRegisters", <<>>), Call("led_driver_init", <<>>),
              CallAny("off", { <<image>> : image \in JunkImages }) }
      [] v = "ino16" -> { Call("clearRegisters", <<>>), Call("allBlack", <<>>) }
      [] v = "ino12" -> { Call("sendGrayscaleFrame", <<Driver2Frame(0)>>) }

\* The animations of animations.cpp (pulsing_2: its second pulsing).
AnimFns == {"pulsing", "pulsing_2", "checkerboard_flash", "off"}

\* Frequencies pulsing is called with, as <<numerator, denominator>>.
FrequencySamples == { <<1, 2>>, <<2, 1>>, <<3, 1>> }

\* Arguments checkerboard_flash is called with, and what its image held.
CheckerboardSamples ==
    { << Color(65535, 0, 0, 0), Color(0, 0, 1234, 65535), 250, image >> :
          image \in JunkImages }
    \cup { << WHITE_WHITE, BLACK, 1000, image >> : image \in JunkImages }

\* One animation called after led_driver_init(), as main() does.
AnimCalls ==
    { CallAny("pulsing", FrequencySamples),
      CallAny("pulsing_2",
              { <<1, 2, u, d, image>> :
                    u \in FadeRounds(0, TRUE, 1, 2, MaxFadeSteps),
                    d \in FadeRounds(MAX_BRIGHTNESS, FALSE, 1, 2, MaxFadeSteps),
                    image \in {CHOOSE j \in JunkImages : j[0][0][0] # 65535} }
              \cup { <<f[1], f[2], u, d, image>> :
                    f \in {<<3, 1>>},
                    u \in FadeRounds(0, TRUE, 3, 1, MaxFadeSteps),
                    d \in FadeRounds(MAX_BRIGHTNESS, FALSE, 3, 1, MaxFadeSteps),
                    image \in {CHOOSE j \in JunkImages : j[0][0][0] # 65535} }),
      CallAny("checkerboard_flash", CheckerboardSamples),
      CallAny("off", { <<image>> : image \in JunkImages }) }

NoGclk == [started |-> 0, idle |-> 0, edges |-> 0, by |-> {}, pwmBy |-> {}, reconf |-> 0]

\* The functions that are running: those with a frame on the call stack.
Running == { stack[i].fn : i \in 1..Len(stack) }

\* No pulsing call is being stepped.
NoFade == [fn |-> ""]

\* No set_all_pixels / off call is being stepped.
NoImg == [fn |-> ""]

NoWr == [calls |-> 0, first |-> <<>>, second |-> <<>>]

\* A log is run-length encoded: an entry equal to the last one raises its count.
RleAppend(log, e) ==
    IF log # <<>> /\ log[Len(log)].e = e
    THEN [log EXCEPT ![Len(log)].n = @ + 1]
    ELSE Append(log, [e |-> e, n |-> 1])

\* wr with entry e added to the log of the call that is running.
Logged(e) ==
    IF harness # "twice" THEN wr
    ELSE IF wr.calls = 1 THEN [wr EXCEPT !.first = RleAppend(@, e)]
    ELSE [wr EXCEPT !.second = RleAppend(@, e)]

\* The (pin, level) pairs of the pin writes in ev, in order.
Writes == [i \in 1..Len(ev) |-> <<ev[i].pin, ev[i].val>>]

Init ==
    /\ variant \in Variants
    /\ harness \in {"boot", "api"}
    /\ \E code \in (IF harness = "boot" THEN {BootProgram(variant)}
                    ELSE { <<c>> : c \in ApiCalls(variant) }) :
           stack = << Frame("call", harness, <<>>, code, 1) >>
    /\ pin = [SDI |-> 0, DCLK |-> 0, LE |-> 0, GCLK |-> 0]
    /\ pwm = [function |-> "", clkdiv |-> <<1, <<0, 1>>>>, wrap |-> 0, level |-> 0, enabled |-> 0]
    /\ \E h \in PowerUp(variant) : reg = h.reg /\ latched = h.latched
    /\ cmd = [pulses |-> 0, last |-> -1]
    /\ now = 0
    /\ ev = <<>>
    /\ bits = <<>>
    /\ sub = NoSub
    /\ hist = NoHist
    /\ ret = NoRet
    /\ gclk = NoGclk
    /\ anim = <<>>
    /\ wr = NoWr
    /\ fade = NoFade
    /\ img = NoImg

\* The same all-zero submission called two times in a row.
InitTwice ==
    /\ variant \in Variants
    /\ harness = "twice"
    /\ \E c \in ZeroSubmissions(variant) :
           stack = << Frame("call", harness, <<>>, <<c, c>>, 1) >>
    /\ pin = [SDI |-> 0, DCLK |-> 0, LE |-> 0, GCLK |-> 0]
    /\ pwm = [function |-> "", clkdiv |-> <<1, <<0, 1>>>>, wrap |-> 0, level |-> 0, enabled |-> 0]
    /\ \E h \in PowerUp(variant) : reg = h.reg /\ latched = h.latched
    /\ cmd = [pulses |-> 0, last |-> -1]
    /\ now = 0
    /\ ev = <<>>
    /\ bits = <<>>
    /\ sub = NoSub
    /\ hist = NoHist
    /\ ret = NoRet
    /\ gclk = NoGclk
    /\ anim = <<>>
    /\ wr = NoWr
    /\ fade = NoFade
    /\ img = NoImg

\* led_driver_init(), then one animation.
InitAnim ==
    /\ variant = "pico"
    /\ harness = "anim"
    /\ \E c \in AnimCalls :
           stack = << Frame("call", harness, <<>>, << Call("led_driver_init", <<>>), c >>, 1) >>
    /\ pin = [SDI |-> 0, DCLK |-> 0, LE |-> 0, GCLK |-> 0]
    /\ pwm = [function |-> "", clkdiv |-> <<1, <<0, 1>>>>, wrap |-> 0, level |-> 0, enabled |-> 0]
    /\ \E h \in PowerUp(variant) : reg = h.reg /\ latched = h.latched
    /\ cmd = [pulses |-> 0, last |-> -1]
    /\ now = 0
    /\ ev = <<>>
    /\ bits = <<>>
    /\ sub = NoSub
    /\ hist = NoHist
    /\ ret = NoRet
    /\ gclk = NoGclk
    /\ anim = <<>>
    /\ wr = NoWr
    /\ fade = NoFade
    /\ img = NoImg

\* gpio_put / digitalWrite: the pin is driven, and the chain reacts to the edge.
ExecPut ==
    /\ AtStatement /\ Stmt.op = "put"
    /\ LET p == Stmt.pin
           x == Stmt.val
           dclkRise == p = "DCLK" /\ x = 1 /\ pin.DCLK = 0
           leRise == p = "LE" /\ x = 1 /\ pin.LE = 0
           leFall == p = "LE" /\ x = 0 /\ pin.LE = 1
       IN  /\ pin' = [pin EXCEPT ![p] = x]
           /\ reg' = IF dclkRise /\ pin.LE = 0
                     THEN ShiftIn(reg, pin.SDI, GS_BITS(variant)) ELSE reg
           /\ cmd' = IF leRise THEN [cmd EXCEPT !.pulses = 0]
                     ELSE IF leFall THEN [cmd EXCEPT !.last = cmd.pulses]
                     ELSE IF dclkRise /\ pin.LE = 1
                          THEN [cmd EXCEPT !.pulses = cmd.pulses + 1]
                     ELSE cmd
           /\ latched' = IF leFall /\ cmd.pulses = 1 THEN reg ELSE latched
           /\ ev' = IF Top.fn \in ProtocolFns
                    THEN Append(ev, [pin |-> p, val |-> x, t |-> now,
                                     dclk |-> pin.DCLK, le |-> pin.LE])
                    ELSE ev
           /\ gclk' = IF p = "GCLK"
                      THEN [gclk EXCEPT !.started = IF x = 1 /\ pin.GCLK = 0 THEN 1 ELSE @,
                                        !.edges = IF x = 1 /\ pin.GCLK = 0 THEN @ + 1 ELSE @,
                                        !.idle = 0,
                                        !.by = @ \cup Running]
                      ELSE IF dclkRise /\ Top.fn \in ProtocolFns
                           THEN [gclk EXCEPT !.idle = @ + 1]
                      ELSE gclk
           /\ wr' = IF Top.fn \in ProtocolFns THEN wr ELSE Logged(<<"put", <<p, x>>>>)
    /\ stack' = Advanced
    /\ ret' = NoRet
    /\ UNCHANGED << variant, harness, pwm, now, bits, sub, hist, anim, fade, img >>

\* sleep_us / sleep_ms / delayMicroseconds / delay
ExecSleep ==
    /\ AtStatement /\ Stmt.op = "sleep"
    /\ now' = now + Stmt.us
    /\ anim' = IF Top.fn \in AnimFns /\ anim # <<>>
               THEN [anim EXCEPT ![Len(anim)].slept = @ + Stmt.us]
               ELSE anim
    /\ stack' = Advanced
    /\ ret' = NoRet
    /\ UNCHANGED << variant, harness, pin, pwm, reg, latched, cmd, ev, bits, sub, hist, gclk, wr, fade, img >>

\* gpio_set_function / pwm_set_clkdiv / pwm_set_wrap / pwm_set_gpio_level / pwm_set_enabled
ExecPwm ==
    /\ AtStatement /\ Stmt.op = "pwm"
    /\ pwm' = [pwm EXCEPT ![Stmt.field] = Stmt.val]
    /\ gclk' = [gclk EXCEPT !.started = IF Stmt.field = "enabled" /\ Stmt.val = 1
                                        THEN 1 ELSE @,
                            !.pwmBy = @ \cup Running,
                            !.reconf = IF pwm.enabled = 1 THEN @ + 1 ELSE @]
    /\ stack' = Advanced
    /\ ret' = NoRet
    /\ UNCHANGED << variant, harness, pin, reg, latched, cmd, now, ev, bits, sub, hist, anim, wr, fade, img >>

\* for (...) { body }: entered, or skipped when it runs no round
ExecLoop ==
    /\ AtStatement /\ Stmt.op = "loop"
    /\ stack' = IF Stmt.n <= 0 \/ Stmt.body = <<>>
                THEN Advanced
                ELSE Append(Advanced, Frame("loop", Top.fn, Top.arg, Stmt.body, Stmt.n))
    /\ ret' = NoRet
    /\ UNCHANGED << variant, harness, pin, pwm, reg, latched, cmd, now, ev, bits, sub, hist, gclk, anim, wr, fade, img >>

\* A function call: its frame is pushed, and the tallies note the call.
ExecCall ==
    /\ AtStatement /\ Stmt.op = "call"
    /\ \E a \in Stmt.args :
         LET fn == Stmt.fn
             isData == \/ fn \in {"set_image", "allWhite", "sendGrayscaleFrame"}
                       \/ (fn = "shiftBit" /\ a[1] # 0)
         IN  /\ stack' = Append(Advanced, Frame("call", fn, a, Body(variant, fn, a), 1))
             /\ ev' = IF fn \in ProtocolFns THEN <<>> ELSE ev
             /\ bits' = IF fn \in ValueFns THEN <<>>
                        ELSE IF fn = "shiftBit" /\ Top.fn \in ValueFns
                             THEN Append(bits, a[1])
                        ELSE bits
             /\ sub' = IF fn \in SubmitFns THEN [NoSub EXCEPT !.fn = fn]
                       ELSE IF fn = "shiftBit"
                            THEN [sub EXCEPT !.shifts = sub.shifts + 1,
                                             !.ones = IF a[1] # 0 THEN @ \cup {sub.shifts}
                                                      ELSE @]
                       ELSE IF fn \in LatchFns
                            THEN [sub EXCEPT !.latches = sub.latches + 1,
                                             !.shiftsAtFirstLatch =
                                                 IF sub.latches = 0 THEN sub.shifts
                                                 ELSE sub.shiftsAtFirstLatch,
                                             !.shiftsAtLastLatch = sub.shifts,
                                             !.gaps = @ \cup
                                                 {sub.shifts - (IF sub.latches = 0 THEN 0
                                                                ELSE sub.shiftsAtLastLatch)}]
                       ELSE IF fn = "outputData"
                            THEN [sub EXCEPT !.outputs = sub.outputs + 1,
                                             !.shiftsAtOutput = sub.shifts,
                                             !.latchesAtOutput = sub.latches]
                       ELSE sub
             /\ hist' = [hist EXCEPT
                           !.clearCalls = IF fn = "clearRegisters" THEN @ + 1 ELSE @,
                           !.blackCalls = IF fn = "allBlack" THEN @ + 1 ELSE @,
                           !.data = IF isData THEN 1 ELSE @,
                           !.clearsAtData = IF isData /\ hist.data = 0
                                            THEN hist.clearRets ELSE @,
                           !.blacksAtData = IF isData /\ hist.data = 0
                                            THEN hist.blackRets ELSE @]
             /\ wr' = IF harness = "twice" /\ Len(stack) = 1
                      THEN [wr EXCEPT !.calls = @ + 1]
                      ELSE wr
             /\ anim' = IF fn \in AnimFns THEN <<>>
                        ELSE IF fn = "set_image" /\ Top.fn \in AnimFns
                             THEN Append(anim, [image |-> a[1], slept |-> 0])
                        ELSE anim
             /\ gclk' = IF fn \in {"generateGCLK", "gclkPulses"}
                        THEN [gclk EXCEPT !.edges = 0] ELSE gclk
    /\ now' = 0
    /\ ret' = NoRet
    /\ UNCHANGED << variant, harness, pin, pwm, reg, latched, cmd, fade, img >>

\* The end of a function body: back to the caller.
ExecReturn ==
    /\ ~AtStatement /\ Top.kind = "call" /\ Len(stack) > 1
    /\ stack' = SubSeq(stack, 1, Len(stack) - 1)
    /\ ret' = [fn |-> Top.fn, arg |-> Top.arg]
    /\ hist' = [hist EXCEPT
                  !.clearRets = IF Top.fn = "clearRegisters" THEN @ + 1 ELSE @,
                  !.blackRets = IF Top.fn = "allBlack" THEN @ + 1 ELSE @]
    /\ wr' = IF Top.fn \in ProtocolFns THEN Logged(<<Top.fn, Writes>>) ELSE wr
    /\ UNCHANGED << variant, harness, pin, pwm, reg, latched, cmd, now, ev, bits, sub, gclk, anim, fade, img >>

Next == ExecPut \/ ExecSleep \/ ExecPwm \/ ExecLoop \/ ExecCall \/ ExecReturn

Spec == Init /\ [][Next]_vars

SpecTwice == InitTwice /\ [][Next]_vars

SpecAnim == InitAnim /\ [][Next]_vars

\* ---------------------------------------------- the fade loops of pulsing
\* The number of values of a 16-bit loop counter.  A loop whose state is its
\* counter alone and that has run more rounds than this has had some value
\* twice, and so never ends.
CounterValues == 2 ^ 16

\* What a build may make of the conversion of a float whose truncated value t
\* is outside 0..65535 to uint16_t (undefined): the low 16 bits, the nearest
\* end of the range, or 0 below the range and the low 16 bits above it.
Conversions == {"wrap", "saturate", "zero_negative"}

FloatToUint16(t, conv) ==
    IF t \in 0..65535 THEN t
    ELSE CASE conv = "wrap" -> t % 65536
           [] conv = "saturate" -> IF t < 0 THEN 0 ELSE 65535
           [] conv = "zero_negative" -> IF t < 0 THEN 0 ELSE t % 65536

\* brightness += MAX_BRIGHTNESS / frequency (up) or -= (down) with
\* frequency = num / den, for brightness >= 0: the float sum truncated toward
\* zero.
FadeStep(brightness, up, num, den) ==
    LET whole == (MAX_BRIGHTNESS * den) \div num
        rest == (MAX_BRIGHTNESS * den) % num
    IN  IF up THEN brightness + whole
        ELSE IF rest = 0 \/ brightness <= whole THEN brightness - whole
        ELSE brightness - whole - 1

\* Frequencies whose steps the float arithmetic computes exactly: steps above
\* the counter's range (1/2), equal to it (1), that do not divide it (2, 4),
\* that divide it (3), of 1 (65535) and below 1 (65536, 131072).
FadeFrequencies ==
    { <<1, 2>>, <<1, 1>>, <<2, 1>>, <<3, 1>>, <<4, 1>>,
      <<65535, 1>>, <<65536, 1>>, <<131072, 1>> }

\* A call of pulsing (lines 16-55: int counter) or of the second pulsing
\* (lines 108-127: uint16_t counter) about to test its fade-up loop.
FadeCalls ==
    { [fn |-> "pulsing", num |-> f[1], den |-> f[2], conv |-> "none",
       phase |-> "up", brightness |-> 0, rounds |-> 0] : f \in FadeFrequencies }
    \cup { [fn |-> "pulsing_2", num |-> f[1], den |-> f[2], conv |-> c,
            phase |-> "up", brightness |-> 0, rounds |-> 0] :
               f \in FadeFrequencies, c \in Conversions }

\* The loop test of the running fade loop.
FadeTest ==
    IF fade.phase = "up" THEN fade.brightness < MAX_BRIGHTNESS ELSE fade.brightness > 0

\* pulsing alone, stepped one loop round at a time.  The body of a round (fill
\* the image, set_image, sleep_ms) writes neither frequency nor brightness and
\* is left out; the chain is not modelled here.
InitFade ==
    /\ variant = "pico"
    /\ harness = "fade"
    /\ fade \in FadeCalls
    /\ stack = <<>>
    /\ pin = [SDI |-> 0, DCLK |-> 0, LE |-> 0, GCLK |-> 0]
    /\ pwm = [function |-> "", clkdiv |-> <<1, <<0, 1>>>>, wrap |-> 0, level |-> 0, enabled |-> 0]
    /\ reg = <<>>
    /\ latched = <<>>
    /\ cmd = [pulses |-> 0, last |-> -1]
    /\ now = 0
    /\ ev = <<>>
    /\ bits = <<>>
    /\ sub = NoSub
    /\ hist = NoHist
    /\ ret = NoRet
    /\ gclk = NoGclk
    /\ anim = <<>>
    /\ wr = NoWr
    /\ img = NoImg

\* One round of a fade loop: the test holds, the body runs, the counter is
\* stepped and converted back to its type.
FadeRound ==
    /\ harness = "fade" /\ fade.phase \in {"up", "down"}
    /\ FadeTest
    /\ fade.rounds <= CounterValues
    /\ LET t == FadeStep(fade.brightness, fade.phase = "up", fade.num, fade.den)
       IN  fade' = [fade EXCEPT
                      !.brightness = IF fade.fn = "pulsing" THEN t
                                     ELSE FloatToUint16(t, fade.conv),
                      !.rounds = @ + 1]
    /\ UNCHANGED << variant, harness, stack, pin, pwm, reg, latched, cmd, now, ev, bits,
                    sub, hist, ret, gclk, anim, wr, img >>

\* The test of a fade loop fails: on to the fade-down loop, or pulsing returns.
FadeLeave ==
    /\ harness = "fade" /\ fade.phase \in {"up", "down"}
    /\ ~FadeTest
    /\ \/ /\ fade.phase = "up"
          /\ fade' = [fade EXCEPT !.phase = "down", !.brightness = MAX_BRIGHTNESS,
                                  !.rounds = 0]
          /\ ret' = ret
       \/ /\ fade.phase = "down"
          /\ fade' = [fade EXCEPT !.phase = "done"]
          /\ ret' = [fn |-> fade.fn, arg |-> <<fade.num, fade.den>>]
    /\ UNCHANGED << variant, harness, stack, pin, pwm, reg, latched, cmd, now, ev, bits,
                    sub, hist, gclk, anim, wr, img >>

NextFade == FadeRound \/ FadeLeave

SpecFade == InitFade /\ [][NextFade]_vars

\* ------------------------------------------- set_all_pixels and off alone
\* Colors set_all_pixels is called with.
ColorSamples ==
    { BLACK, WHITE_WHITE, Color(1, 2, 3, 4), Color(65535, 0, 0, 0),
      Color(0, 0, 1234, 65535) }

\* A call of set_all_pixels(image, color), or of off(), whose clear_image
\* is set_all_pixels(image, BLACK) on its uninitialised local image; was is
\* what the image held when the call began, k the pixels written so far.
ImageCalls ==
    { [fn |-> "set_all_pixels", image |-> j, was |-> j, color |-> c, k |-> 0,
       pc |-> "fill"] : j \in JunkImages \cup ImageSamples, c \in ColorSamples }
    \cup { [fn |-> "off", image |-> j, was |-> j, color |-> BLACK, k |-> 0,
            pc |-> "fill"] : j \in JunkImages }

\* set_all_pixels and off alone, stepped one set_pixel call at a time; what
\* set_image does with the image it is handed is not modelled here.
InitImage ==
    /\ variant = "pico"
    /\ harness = "image"
    /\ img \in ImageCalls
    /\ stack = <<>>
    /\ pin = [SDI |-> 0, DCLK |-> 0, LE |-> 0, GCLK |-> 0]
    /\ pwm = [function |-> "", clkdiv |-> <<1, <<0, 1>>>>, wrap |-> 0, level |-> 0, enabled |-> 0]
    /\ reg = <<>>
    /\ latched = <<>>
    /\ cmd = [pulses |-> 0, last |-> -1]
    /\ now = 0
    /\ ev = <<>>
    /\ bits = <<>>
    /\ sub = NoSub
    /\ hist = NoHist
    /\ ret = NoRet
    /\ gclk = NoGclk
    /\ anim = <<>>
    /\ wr = NoWr
    /\ fade = NoFade

\* One round of the loops of set_all_pixels: set_pixel(image, row, col, color)
SetPixelStep ==
    /\ harness = "image" /\ img.pc = "fill" /\ img.k < 16
    /\ img' = [img EXCEPT
                 !.image = set_pixel(img.image, img.k \div 4, img.k % 4, img.color),
                 !.k = @ + 1]
    /\ UNCHANGED << variant, harness, stack, pin, pwm, reg, latched, cmd, now, ev, bits,
                    sub, hist, ret, gclk, anim, wr, fade >>

\* The loops of set_all_pixels are through: it returns, in off to clear_image
\* and on to the set_image call.
SetAllPixelsReturn ==
    /\ harness = "image" /\ img.pc = "fill" /\ img.k >= 16
    /\ img' = [img EXCEPT !.pc = IF img.fn = "off" THEN "submit" ELSE "done"]
    /\ ret' = [fn |-> "set_all_pixels", arg |-> <<img.was, img.color>>]
    /\ UNCHANGED << variant, harness, stack, pin, pwm, reg, latched, cmd, now, ev, bits,
                    sub, hist, gclk, anim, wr, fade >>

\* off: set_image(image)
OffSetImage ==
    /\ harness = "image" /\ img.pc = "submit"
    /\ anim' = Append(anim, [image |-> img.image, slept |-> 0])
    /\ img' = [img EXCEPT !.pc = "sleep"]
    /\ ret' = NoRet
    /\ UNCHANGED << variant, harness, stack, pin, pwm, reg, latched, cmd, now, ev, bits,
                    sub, hist, gclk, wr, fade >>

\* off: sleep_ms(100), and it returns
OffSleep ==
    /\ harness = "image" /\ img.pc = "sleep"
    /\ anim' = [anim EXCEPT ![Len(anim)].slept = @ + 100000]
    /\ now' = now + 100000
    /\ img' = [img EXCEPT !.pc = "done"]
    /\ ret' = [fn |-> "off", arg |-> <<img.was>>]
    /\ UNCHANGED << variant, harness, stack, pin, pwm, reg, latched, cmd, ev, bits,
                    sub, hist, gclk, wr, fade >>

NextImage == SetPixelStep \/ SetAllPixelsReturn \/ OffSetImage \/ OffSleep

SpecImage == InitImage /\ [][NextImage]_vars

\* ------------------------------------------------------------- properties
\* The length of the chain's shift register in bits.
ChainBits == NUM_DRIVERS * NUM_CHANNELS * GS_BITS(variant)

\* The number a bit sequence spells, first bit most significant.
RECURSIVE ValueOf(_)
ValueOf(bs) ==
    IF bs = <<>> THEN 0 ELSE 2 * ValueOf(SubSeq(bs, 1, Len(bs) - 1)) + bs[Len(bs)]

\* Indices of the writes in ev that are edges of a pin.
Rises(p) == { i \in 1..Len(ev) : ev[i].pin = p /\ ev[i].val = 1 /\ ev[i][IF p = "LE" THEN "le" ELSE "dclk"] = 0 }

Falls(p) == { i \in 1..Len(ev) : ev[i].pin = p /\ ev[i].val = 0 /\ ev[i][IF p = "LE" THEN "le" ELSE "dclk"] = 1 }

SdiWrites == { i \in 1..Len(ev) : ev[i].pin = "SDI" }

FrameInRange(f) ==
    \A d \in 0..(NUM_DRIVERS - 1) : \A ch \in 0..(NUM_CHANNELS - 1) :
        f[d][ch] \in 0..(2 ^ GS_BITS_12 - 1)

\* C1: when sendGrayscaleFrame(drivers) returns, for a frame of values within
\* 0..2^W-1, the window of every (driver d, channel ch) of the shift register,
\* and of the output latches it was latched into, holds drivers[d][ch],
\* whatever the chain held before.
C1_FrameLandsInWindows ==
    (ret.fn = "sendGrayscaleFrame" /\ FrameInRange(ret.arg[1])) =>
        \A d \in 0..(NUM_DRIVERS - 1) : \A ch \in 0..(NUM_CHANNELS - 1) :
            /\ reg[WindowOf(d, ch)] = ret.arg[1][d][ch]
            /\ latched[WindowOf(d, ch)] = ret.arg[1][d][ch]

C1_Witness ==
    /\ ret.fn = "sendGrayscaleFrame" /\ harness = "api"
    /\ FrameInRange(ret.arg[1])
    /\ ret.arg[1][3][15] = 3850 /\ ret.arg[1][0][0] = 7
    /\ latched[WindowOf(3, 15)] = 3850 /\ latched[WindowOf(0, 0)] = 7

\* C2: a call shiftValue(V, W) / shiftBits(V, W) with W = 12 or 16 and
\* 0 <= V <= 2^W-1 calls shiftBit exactly W times, the k-th call (k = 0..W-1)
\* with bit W-1-k of V, so that the bits read MSB first spell V.
C2_MsbFirst ==
    (ret.fn \in ValueFns /\ ret.arg[2] \in WidthSamples
        /\ ret.arg[1] \in 0..(2 ^ ret.arg[2] - 1)) =>
            /\ Len(bits) = ret.arg[2]
            /\ \A k \in 0..(ret.arg[2] - 1) :
                   bits[k + 1] = (ret.arg[1] \div 2 ^ (ret.arg[2] - 1 - k)) % 2
            /\ ValueOf(bits) = ret.arg[1]

C2_Witness ==
    /\ ret.fn \in ValueFns /\ ret.arg = <<2652, 12>>
    /\ bits = <<1, 0, 1, 0, 0, 1, 0, 1, 1, 1, 0, 0>>

\* C3 (as claimed): every shiftBit call writes SDI, then at least 1 us later
\* and with no SDI write in between raises DCLK, keeps it high for at least
\* 1 us, and lowers it: exactly one rising and one falling edge.
C3_ShiftBitTiming ==
    ret.fn = "shiftBit" =>
        /\ Cardinality(Rises("DCLK")) = 1
        /\ Cardinality(Falls("DCLK")) = 1
        /\ \E s \in SdiWrites : \E r \in Rises("DCLK") : \E f \in Falls("DCLK") :
              /\ s < r /\ r < f
              /\ \A i \in SdiWrites : i <= s
              /\ ev[r].t - ev[s].t >= 1
              /\ ev[f].t - ev[r].t >= 1

FrameOps == {"clearRegisters", "allWhite", "allBlack"}

CountedOps == {"clearRegisters", "allWhite", "allBlack", "sendGrayscaleFrame"}

\* C7 (as claimed): a frame submission issues 4096 shiftBit calls with 16-bit
\* values and 3072 with 12-bit values.
C7_ShiftCount4096 ==
    ret.fn \in CountedOps =>
        sub.shifts = (IF GS_BITS(variant) = 16 THEN 4096 ELSE 3072)

\* C7 (amended): a frame submission issues exactly D*C*W shiftBit calls, all
\* before its output commit (its latch, in sendGrayscaleFrame): 4*16*16 = 1024
\* calls with 16-bit values and 4*16*12 = 768 with 12-bit values.
C7_ShiftCount ==
    ret.fn \in CountedOps =>
        /\ sub.fn = ret.fn
        /\ sub.shifts = NUM_DRIVERS * NUM_CHANNELS * GS_BITS(variant)
        /\ sub.shifts = (IF variant = "ino12" THEN 768 ELSE 1024)
        /\ IF ret.fn = "sendGrayscaleFrame"
           THEN sub.shiftsAtLastLatch = sub.shifts
           ELSE sub.shiftsAtOutput = sub.shifts

C7_Witness ==
    /\ ret.fn = "clearRegisters" /\ variant = "ino16"
    /\ sub.shifts = 1024 /\ sub.shiftsAtOutput = 1024

\* C8: when clearRegisters returns, every bit of the shift register and the
\* latched value of every channel of every driver is 0, whatever they held.
C8_ClearZeroes ==
    ret.fn = "clearRegisters" =>
        \A w \in Windows : reg[w] = 0 /\ latched[w] = 0

C8_Witness ==
    /\ ret.fn = "clearRegisters" /\ harness = "api" /\ variant = "ino16"
    /\ \A w \in Windows : reg[w] = 0 /\ latched[w] = 0

\* C9 (as claimed): from power-up, in the Pico firmware and the Arduino sketch
\* of main.cpp, clearRegisters is called at most once, and has run exactly once
\* and returned when the first frame with data is submitted or the first
\* non-zero bit is shifted.
C9_ClearRegistersFirst ==
    (harness = "boot" /\ variant \in {"pico", "ino16"}) =>
        /\ hist.clearCalls <= 1
        /\ hist.data = 1 => hist.clearsAtData = 1

\* C9 (amended): ... the clear operation - clearRegisters in the Pico
\* firmware, allBlack in the Arduino sketch of main.cpp, whose setup has its
\* clearRegisters call commented out - is called at most once, and has run
\* exactly once and returned by then.
C9_ClearFirst ==
    (harness = "boot" /\ variant \in {"pico", "ino16"}) =>
        /\ hist.clearCalls + hist.blackCalls <= 1
        /\ (variant = "pico") => hist.blackCalls = 0
        /\ (variant = "ino16") => hist.clearCalls = 0
        /\ hist.data = 1 => hist.clearsAtData + hist.blacksAtData = 1

C9_Witness ==
    /\ harness = "boot" /\ variant = "ino16"
    /\ hist.data = 1 /\ hist.blacksAtData = 1 /\ hist.clearCalls = 0

\* C10 (as claimed): a value above 2^W-1 handed to shiftBits with W = 12 is
\* clamped to 2^W-1 or rejected: the bits sent spell 2^W-1, or none are sent.
C10_ClampedOrRejected ==
    (ret.fn = "shiftBits" /\ ret.arg[2] = GS_BITS_12
        /\ ret.arg[1] > 2 ^ GS_BITS_12 - 1) =>
            (bits = <<>> \/ ValueOf(bits) = 2 ^ GS_BITS_12 - 1)

\* The positions of the 1 bits when driver 2 alone is at half scale and the
\* chain is sent farthest driver first with width-bit values.
HalfScaleOnes(first, width) == { first + width * k : k \in 0..(NUM_CHANNELS - 1) }

\* C11 (as claimed): with 16-bit values, the farthest-first submission of the
\* frame with every channel of driver 2 at 0x8000 and every other driver 0
\* makes exactly 4096 shiftBit calls, those at positions [512,768) carrying
\* the pattern 1, 0 x 15 of 0x8000 and all others carrying 0.
C11_Driver2At512 ==
    (ret.fn = "set_image" /\ ImageFrame(ret.arg[1]) = Driver2Frame(GS_50_PERCENT)) =>
        /\ sub.shifts = 4096
        /\ sub.ones = HalfScaleOnes(512, GS_BITS_16)

\* C11 (amended): that submission makes exactly 4*16*16 = 1024 shiftBit
\* calls, those at positions [256,512) (driver 3 goes first and fills
\* [0,256)) carrying the pattern 1, 0 x 15 and all others 0; the 12-bit
\* sendGrayscaleFrame with driver 2 at 0x800 makes 768 calls, those at
\* positions [192,384) carrying 1, 0 x 11 and all others 0.
C11_Driver2Positions ==
    /\ (ret.fn = "set_image" /\ ImageFrame(ret.arg[1]) = Driver2Frame(GS_50_PERCENT)) =>
           /\ sub.fn = "set_image"
           /\ sub.shifts = 1024
           /\ sub.ones = HalfScaleOnes(256, GS_BITS_16)
    /\ (ret.fn = "sendGrayscaleFrame" /\ ret.arg[1] = Driver2Frame(2 ^ (GS_BITS_12 - 1))) =>
           /\ sub.fn = "sendGrayscaleFrame"
           /\ sub.shifts = 768
           /\ sub.ones = HalfScaleOnes(192, GS_BITS_12)

C11_Witness ==
    /\ ret.fn = "set_image" /\ harness = "api"
    /\ ImageFrame(ret.arg[1]) = Driver2Frame(GS_50_PERCENT)
    /\ sub.shifts = 1024 /\ 256 \in sub.ones /\ 496 \in sub.ones
    /\ Cardinality(sub.ones) = NUM_CHANNELS

\* Log a is the start of log b.
RlePrefix(a, b) ==
    \/ a = <<>>
    \/ /\ Len(a) <= Len(b)
       /\ \A i \in 1..(Len(a) - 1) : a[i] = b[i]
       /\ a[Len(a)].e = b[Len(a)].e /\ a[Len(a)].n <= b[Len(a)].n

\* The pin writes a log stands for: those of its entries, times their counts.
LogWrites(log) ==
    IF log = <<>> THEN 0
    ELSE LET w(i) == log[i].n * (IF log[i].e[1] = "put" THEN 1 ELSE Len(log[i].e[2]))
             sum[i \in 0..Len(log)] == IF i = 0 THEN 0 ELSE sum[i - 1] + w(i)
         IN  sum[Len(log)]

\* C12: when the second of two all-zero submissions made one directly after
\* the other (clearRegisters, allBlack, led_driver_init, off, or
\* sendGrayscaleFrame of the zero frame) has returned, its pin writes and
\* protocol calls are those of the first: same pins, same levels, same calls,
\* same order, same number; and while it runs they are a start of the
\* first's - whatever the chain held before the first and a local image
\* held before each.
C12_SameWrites ==
    (harness = "twice" /\ wr.calls = 2) =>
        /\ RlePrefix(wr.second, wr.first)
        /\ (Len(stack) = 1 /\ ret # NoRet) => wr.second = wr.first

C12_Witness ==
    /\ harness = "twice" /\ wr.calls = 2 /\ Len(stack) = 1
    /\ ret.fn = "clearRegisters" /\ variant = "pico"
    /\ wr.second = wr.first
    /\ LogWrites(wr.first) > 3 * NUM_DRIVERS * NUM_CHANNELS * GS_BITS_16
    /\ \A w \in Windows : latched[w] = 0

\* C13 (as claimed): once the grayscale clock has been set going it never
\* stops: the PWM slice is left enabled and is written no more, and where
\* GCLK is pulsed by hand no whole frame is shifted and latched without GCLK
\* being toggled in between (the least the claim asks for).
C13_GclkContinuous ==
    gclk.started = 1 =>
        /\ variant = "pico" => (pwm.enabled = 1 /\ gclk.reconf = 0)
        /\ variant # "pico" => gclk.idle < ChainBits

\* The data-path operations the claim C17 lists.
DataPathOps == {"shiftBit", "shiftValue", "latchData", "outputData", "clearRegisters",
                "allWhite", "setLEDBrightness"}

\* C17 (as claimed): no data-path operation writes the GCLK line or the PWM
\* slice: none of them is running when GCLK or a PWM register is written.
C17_DataPathLeavesGclk ==
    /\ gclk.by \cap DataPathOps = {}
    /\ gclk.pwmBy \cap DataPathOps = {}

\* C18 (as claimed): when generateGCLK(GCLK_PULSES_PER_FRAME) returns it has
\* made exactly 65536 GCLK rising edges, and gclkPulses(GCLK_PULSES_PER_FRAME)
\* of the 12-bit sketch exactly 4096.
C18_FullPwmCycle ==
    /\ (ret.fn = "generateGCLK" /\ ret.arg = <<GCLK_PULSES_PER_FRAME_16>>) =>
           gclk.edges = 65536
    /\ (ret.fn = "gclkPulses" /\ ret.arg = <<GCLK_PULSES_PER_FRAME_12>>) =>
           gclk.edges = 4096

\* The value x / num is within 1 of y / num.
Near(x, y, num) == x - y <= num /\ y - x <= num

\* C14 (as claimed): when pulsing(frequency) returns, with frequency =
\* num / den and step = MAX_BRIGHTNESS / frequency, the frames it submitted
\* are those of a fade-up followed by those of a fade-down: the k-th of the
\* fade-up has every entry at k * step and the k-th of the fade-down at
\* MAX_BRIGHTNESS - k * step (to within the rounding of one unit), every entry
\* lies in 0..65535, and each was followed by a sleep of 1000 / frequency ms.
C14_LinearFade ==
    ret.fn \in {"pulsing", "pulsing_2"} =>
        LET num == ret.arg[1]
            den == ret.arg[2]
        IN  \E u \in 0..Len(anim) : \A i \in 1..Len(anim) :
                LET value == anim[i].image[0][0][0]
                    k == IF i <= u THEN i - 1 ELSE i - u - 1
                IN  /\ anim[i].image = UniformImage(value)
                    /\ value \in 0..65535
                    /\ Near(value * num,
                            IF i <= u THEN k * MAX_BRIGHTNESS * den
                            ELSE MAX_BRIGHTNESS * num - k * MAX_BRIGHTNESS * den,
                            num)
                    /\ anim[i].slept = 1000 * ((1000 * den) \div num)

\* The four entries of a pixel that shows color.
Entries(color) == [c \in 0..3 |-> <<color.r, color.g, color.b, color.w>>[c + 1]]

\* C15: when checkerboard_flash(color1, color2, interval_ms) returns it has
\* submitted exactly two frames: in the first every pixel (row, col) shows
\* color1 when row + col is even and color2 otherwise, in the second the
\* other of the two; each was followed by a sleep of interval_ms and nothing
\* else, and no entry holds what the image held before the call.
C15_Checkerboard ==
    ret.fn = "checkerboard_flash" =>
        /\ Len(anim) = 2
        /\ \A row \in 0..3 : \A col \in 0..3 :
               /\ anim[1].image[row][col] =
                      Entries(IF (row + col) % 2 = 0 THEN ret.arg[1] ELSE ret.arg[2])
               /\ anim[2].image[row][col] =
                      Entries(IF (row + col) % 2 = 0 THEN ret.arg[2] ELSE ret.arg[1])
        /\ \A i \in 1..2 : anim[i].slept = 1000 * ret.arg[3]

C15_Witness ==
    /\ ret.fn = "checkerboard_flash" /\ Len(anim) = 2
    /\ ret.arg[1] # ret.arg[2] /\ ret.arg[3] = 250
    /\ ret.arg[4][1][2] # Entries(ret.arg[2])
    /\ anim[1].image[1][2] = Entries(ret.arg[2])
    /\ anim[2].image[1][2] = Entries(ret.arg[1])
    /\ anim[2].slept = 250000

\* The positions, in call order, of the 1 bits when all 64 values shifted are value.
UniformOnes(value) ==
    { GS_BITS_16 * j + (GS_BITS_16 - 1 - b) :
          j \in 0..(NUM_DRIVERS * NUM_CHANNELS - 1),
          b \in { c \in 0..(GS_BITS_16 - 1) : BitAt(value, c) = 1 } }

\* C16 (as claimed): every one of the 64 16-bit values allWhite(brightness)
\* shifts into the chain is brightness, so that the shift register holds
\* brightness in every window when it returns.
C16_AllWhiteUniform ==
    (ret.fn = "allWhite" /\ variant = "pico") =>
        /\ sub.shifts = NUM_DRIVERS * NUM_CHANNELS * GS_BITS_16
        /\ sub.ones = UniformOnes(ret.arg[1])
        /\ \A w \in Windows : reg[w] = ret.arg[1]

\* C19 (as claimed): when setup_pwm(gpio, freq, duty_percent) returns, the
\* uint32_t product freq * 65536 the divider was computed from is the
\* mathematical product (high half freq, low half 0), so that the period
\* clkdiv * (wrap + 1) is 125000000 / freq, and the level is half the wrap
\* range.
C19_PwmArithmetic ==
    ret.fn = "setup_pwm" =>
        /\ pwm.clkdiv[1] = 125000000
        /\ pwm.clkdiv[2] = << ret.arg[2], 0 >>
        /\ pwm.wrap + 1 = 65536
        /\ 2 * pwm.level \in (pwm.wrap - 1)..(pwm.wrap + 1)

\* C20 (as claimed): for every width 0..255, a call shiftValue(value, bits) /
\* shiftBits(value, width) of a 16-bit value returns after exactly that many
\* shiftBit calls, and the calls for the bit positions at or above 16 carry 0.
C20_ShiftsWidthBits ==
    (ret.fn \in ValueFns /\ ret.arg[1] \in 0..65535 /\ ret.arg[2] \in 0..255) =>
        /\ Len(bits) = ret.arg[2]
        /\ \A k \in 1..Len(bits) : (ret.arg[2] - k >= 16) => bits[k] = 0

\* C21: pulsing returns for every frequency > 0.  In finite-run form: neither
\* fade loop runs more rounds than its counter has values (a loop that does has
\* repeated a counter value, and its rounds repeat forever).
C21_PulsingReturns ==
    fade.fn # "" => fade.rounds <= CounterValues

\* C22: whenever a function of the firmware returns (shiftBit, shiftValue,
\* latchData, outputData, clearRegisters, allWhite, sendGrayscaleFrame and the
\* others alike), DCLK and LE are both low; and every DCLK rising edge of a
\* shiftBit call was made while LE was low.
C22_ClockAndLatchIdle ==
    /\ ret.fn # "" => (pin.DCLK = 0 /\ pin.LE = 0)
    /\ ret.fn = "shiftBit" =>
           \A r \in Rises("DCLK") : ev[r].le = 0

\* A frame submission has just returned: it shifted bits, latched, and its
\* last command clocked DCLK under LE.
C22_Witness ==
    /\ ret.fn \in {"allWhite", "sendGrayscaleFrame", "clearRegisters"}
    /\ sub.shifts > 0 /\ sub.latches > 0
    /\ pin.DCLK = 0 /\ pin.LE = 0
    /\ cmd.last > 0

\* C23: once set_all_pixels(image, color) has returned, every one of the
\* 4 x 4 x 4 entries of the image holds the channel of color it stands for
\* (RED color.r, GREEN color.g, BLUE color.b, WHITE color.w), whatever the
\* image held before; and the image off() hands to set_image, cleared from
\* arbitrary contents, has every entry 0.
C23_AllPixelsWritten ==
    /\ (img.fn # "" /\ img.pc # "fill") =>
           \A row \in 0..3 : \A col \in 0..3 :
               img.image[row][col] = Entries(img.color)
    /\ (img.fn = "off" /\ anim # <<>>) =>
           /\ Len(anim) = 1
           /\ \A row \in 0..3 : \A col \in 0..3 : \A c \in 0..3 :
                  anim[1].image[row][col][c] = 0

\* off() has returned after submitting its frame, and not one entry of its
\* image is what it was when off() began.
C23_Witness ==
    /\ ret.fn = "off" /\ img.pc = "done" /\ anim # <<>>
    /\ \A row \in 0..3 : \A col \in 0..3 : \A c \in 0..3 :
           img.was[row][col][c] # img.image[row][col][c]

====
